---------------------------- MODULE Spec2Model ----------------------------
(***************************************************************************)
(* NeoTechShop cart store: the standalone cart module (assets/js/cart.js,  *)
(* exposed as window.CartAPI) and the cart functions embedded in the page  *)
(* script (script.js), both working on the same localStorage key "cart"    *)
(* and on the same document.                                               *)
(***************************************************************************)
EXTENDS Integers, Sequences, FiniteSets, TLC

(***************************************************************************)
(* Bounds of the model.                                                    *)
(***************************************************************************)
MaxItems == 2
MaxQty == 2
\* calls of initCartUpdateListeners followed during one page lifetime
MaxListeners == 3

(***************************************************************************)
(* JavaScript values.  Every value is a record of the same shape: t is the *)
(* type tag, n the number (for "num"), s the text as a sequence of         *)
(* one-character strings (for "str").                                      *)
(***************************************************************************)
Num(k) == [t |-> "num", n |-> k, s |-> <<>>]
Str(cs) == [t |-> "str", n |-> 0, s |-> cs]
Undef == [t |-> "undef", n |-> 0, s |-> <<>>]
NaN == [t |-> "nan", n |-> 0, s |-> <<>>]
Null == [t |-> "null", n |-> 0, s |-> <<>>]

DigitChars == <<"0", "1", "2", "3", "4", "5", "6", "7", "8", "9">>
IsDigit(c) == \E i \in 1..10 : DigitChars[i] = c
DigitVal(c) == (CHOOSE i \in 1..10 : DigitChars[i] = c) - 1

RECURSIVE Dec(_)
Dec(k) == IF k < 10 THEN <<DigitChars[k + 1]>>
          ELSE Dec(k \div 10) \o <<DigitChars[(k % 10) + 1]>>

\* String(v)
ToStringJS(v) ==
  CASE v.t = "num" -> IF v.n < 0 THEN <<"-">> \o Dec(-v.n) ELSE Dec(v.n)
    [] v.t = "str" -> v.s
    [] v.t = "undef" -> <<"u", "n", "d", "e", "f", "i", "n", "e", "d">>
    [] v.t = "nan" -> <<"N", "a", "N">>
    [] v.t = "null" -> <<"n", "u", "l", "l">>

RECURSIVE SkipSpaces(_)
SkipSpaces(cs) == IF cs # <<>> /\ Head(cs) = " " THEN SkipSpaces(Tail(cs)) ELSE cs

RECURSIVE LeadingDigits(_)
LeadingDigits(cs) == IF cs # <<>> /\ IsDigit(Head(cs))
                     THEN <<Head(cs)>> \o LeadingDigits(Tail(cs))
                     ELSE <<>>

RECURSIVE DigitsValue(_, _)
DigitsValue(ds, acc) == IF ds = <<>> THEN acc
                        ELSE DigitsValue(Tail(ds), acc * 10 + DigitVal(Head(ds)))

\* parseInt(v, 10): the text of v, leading blanks skipped, an optional sign,
\* then the longest run of decimal digits; NaN when there is no digit.
ParseIntJS(v) ==
  LET cs == SkipSpaces(ToStringJS(v))
      neg == cs # <<>> /\ Head(cs) = "-"
      rest == IF cs # <<>> /\ Head(cs) \in {"-", "+"} THEN Tail(cs) ELSE cs
      ds == LeadingDigits(rest)
  IN IF ds = <<>> THEN NaN
     ELSE Num(IF neg THEN -DigitsValue(ds, 0) ELSE DigitsValue(ds, 0))

\* JavaScript truthiness, a || b, a === b
Truthy(v) ==
  CASE v.t = "num" -> v.n # 0
    [] v.t = "str" -> v.s # <<>>
    [] OTHER -> FALSE
OrJS(a, b) == IF Truthy(a) THEN a ELSE b
StrictEq(a, b) == a.t # "nan" /\ b.t # "nan" /\ a = b

\* a number comes back as its text
JsonValue_numberAsText(v) == IF v.t = "num" THEN Str(ToStringJS(v)) ELSE v

\* JSON.parse(JSON.stringify(v)) of a field value: NaN is written as null
JsonValue(v) == IF v.t = "nan" THEN Null ELSE v


(***************************************************************************)
(* Sequence helpers standing for Array.prototype.find / findIndex /        *)
(* filter / splice.                                                        *)
(***************************************************************************)
\* the first index whose element satisfies P, 0 when there is none
FindIndex(seq, P(_)) ==
  IF \E i \in DOMAIN seq : P(seq[i])
  THEN CHOOSE i \in DOMAIN seq : P(seq[i]) /\ \A j \in 1..(i - 1) : ~P(seq[j])
  ELSE 0
Filter(seq, P(_)) == SelectSeq(seq, P)
Splice(seq, i) == SubSeq(seq, 1, i - 1) \o SubSeq(seq, i + 1, Len(seq))

RECURSIVE Sum(_)
Sum(ns) == IF ns = <<>> THEN 0 ELSE Head(ns) + Sum(Tail(ns))
\* reduce((s, it) => s + f(it), 0)
SumOver(seq, f(_)) == Sum([i \in DOMAIN seq |-> f(seq[i])])

(***************************************************************************)
(* The document: its binding targets, and what each displays.              *)
(***************************************************************************)
\* #cartCount: the badge cart.js looks up (DEFAULTS.countId)
ApiBadges == {"cartCount"}
\* the selectors of the page script: #cart-count, .cart-count,
\* #cartBtn .badge, #cartBtn span, .nav-cart-badge, .header-cart-badge
PageBadges == {"idCartCount", "clsCartCount", "btnBadge", "btnSpan",
               "navBadge", "headerBadge"}
Badges == ApiBadges \cup PageBadges
\* #cartItems and #cartTotal, looked up by both scripts
Surfaces == Badges \cup {"cartItems", "cartTotal"}

\* what a surface displays: its markup as served ("init"), a text, the
\* rendered rows of one of the two scripts, or that script's placeholder
InitialMarkup == [k |-> "init", chars |-> <<>>, rows |-> <<>>]
Text(cs) == [k |-> "text", chars |-> cs, rows |-> <<>>]
Rows(by, rs) == [k |-> by, chars |-> <<>>, rows |-> rs]
Placeholder(by) == [k |-> by, chars |-> <<"e", "m", "p", "t", "y">>, rows |-> <<>>]
\* innerHTML = ''
Blank == [k |-> "blank", chars |-> <<>>, rows |-> <<>>]

VARIABLES
  storage,   \* localStorage["cart"]: absent, or the text held, by what it parses to
  access,    \* whether localStorage can be read and written
  present,   \* the binding targets that exist in the document
  text,      \* what each binding target displays
  last,      \* the last handler that ran: its name and what it did, in order
  watch,     \* the listeners and observers initCartUpdateListeners registered
  catalog,   \* productsCache, the fetches issued and the calls awaiting one
  tabs,      \* per page on the origin: the mutator that has read the cart
  serial,    \* the cart the dispatched mutators give applied one after another
  twin       \* the cart the page script's addToCart gives for the same calls

vars == <<storage, access, present, text, last, watch, catalog, tabs, serial, twin>>

Absent == [k |-> "absent", items |-> <<>>]
Stored(cart) == [k |-> "array", items |-> cart]
\* what the key can hold besides a cart: the empty text, text that is not
\* JSON, and JSON text of an object, of a number other than 0, and of null
Malformed == {"empty", "notjson", "object", "number", "null"}
Held(kind) == [k |-> kind, items |-> <<>>]
\* localStorage works; setItem throws (quota exceeded); getItem and setItem
\* both throw (storage disabled)
AccessModes == {"ok", "full", "denied"}
\* a JavaScript value that getCart returns is an array
IsArray(v) == v.k = "array"

\* the selectors the MutationObserver of initCartUpdateListeners looks for:
\* #cart-count, .cart-count, #cartBtn .badge, .nav-cart-badge
Watched == {"idCartCount", "clsCartCount", "btnBadge", "navBadge"}
NoWatch == [watchers |-> 0, listeners |-> 0, satisfied |-> FALSE, loaded |-> FALSE]
\* steps 1 and 2 of initCartUpdateListeners: one more "cart:updated"
\* listener and one more observer of document.body
Listening(wt) == [wt EXCEPT !.listeners = @ + 1, !.watchers = @ + 1]
\* the observer callbacks after a change of the document that holds the
\* targets els: every observer that finds a target disconnects
Observed(wt, els) ==
  IF wt.watchers > 0 /\ els \cap Watched # {}
  THEN [wt EXCEPT !.watchers = 0, !.satisfied = TRUE]
  ELSE wt

\* the callers of loadProducts: the three calls the DOMContentLoaded handler
\* starts together, initProductPage, and the search box
Callers == {"renderFeaturedProducts", "renderSpecialOffers", "init",
            "initProductPage", "search"}
\* productsCache not set, nothing fetched, no call of loadProducts made
NoCatalog == [cache |-> "null", fetches |-> 0, calls |-> [c \in Callers |-> "idle"]]
\* the pages of the origin that share the key
Tabs == {"this", "other"}
Idle == [busy |-> FALSE, seen |-> Absent, f |-> "none", id |-> [t |-> "undef", n |-> 0, s |-> <<>>]]

\* one line item as JSON.stringify writes it and JSON.parse reads it back
JsonItem(it) == [f \in DOMAIN it |-> JsonValue(it[f])]
JsonCart(cart) == [i \in DOMAIN cart |-> JsonItem(cart[i])]

\* the part of the state a handler works on; effects is the order of its
\* storage writes, render passes and notifications, count the count carried
\* by its notification
World == [storage |-> storage, present |-> present, text |-> text,
          effects |-> <<>>, count |-> 0, error |-> FALSE]
\* nothing of a handler runs after an uncaught TypeError
Did(w, what) == IF w.error THEN w ELSE [w EXCEPT !.effects = Append(@, what)]
SetText(w, el, v) ==
  IF el \in w.present /\ ~w.error THEN [w EXCEPT !.text[el] = v] ELSE w
SetStorage(w, v) == IF w.error THEN w ELSE [w EXCEPT !.storage = v]
\* an uncaught TypeError: a call of find, findIndex, filter, reduce or
\* forEach on a value that is not an array, or a property read on null
Raise(w) == [Did(w, "raise") EXCEPT !.error = TRUE]

(***************************************************************************)
(* assets/js/cart.js                                                       *)
(***************************************************************************)
\* raw ? JSON.parse(raw) : [], and [] when getItem or JSON.parse throws
CartAPI_readStorage(w) ==
  IF access = "denied" \/ w.storage.k \in {"absent", "empty", "notjson"}
  THEN Stored(<<>>)
  ELSE w.storage

CartAPI_writeStorage(w, cart, fails) ==
  IF fails THEN Did(w, "writeFailed")
  ELSE Did(SetStorage(w, Stored(JsonCart(cart))), "write")

CartAPI_getCart(w) == CartAPI_readStorage(w)

ensureInt(v, fallback) ==
  LET x == ParseIntJS(v) IN IF x.t = "num" THEN x ELSE fallback

CartAPI_getCartTotal(w) ==
  LET f(it) == ensureInt(it.price, Num(0)).n * ensureInt(it.quantity, Num(0)).n
  IN SumOver(CartAPI_getCart(w).items, f)

\* the number of line items instead of the sum of their quantities
CartAPI_getCartCount_length(w) == Len(CartAPI_getCart(w).items)

CartAPI_getCartCount(w) ==
  LET f(it) == ensureInt(it.quantity, Num(0)).n
  IN SumOver(CartAPI_getCart(w).items, f)

\* n.toLocaleString() for the amounts of the model, all below 1000
formatCurrency(k) == ToStringJS(Num(k))

escapeAttr(v) == IF v.t \in {"null", "undef"} THEN <<>> ELSE ToStringJS(v)

CartAPI_row(it) ==
  [dataId |-> escapeAttr(it.id),
   name |-> ToStringJS(OrJS(OrJS(it.name, it.shortName), Str(<<>>))),
   qty |-> ToStringJS(ensureInt(it.quantity, Num(0))),
   price |-> formatCurrency(ensureInt(it.price, Num(0)).n
                            * ensureInt(it.quantity, Num(0)).n)]

\* getCartCount() raises on a value that is not an array, and so does the
\* walk over the cart once the list container has been reset
CartAPI_updateCartUI(w) ==
  LET loaded == CartAPI_getCart(w)
      cart == loaded.items
      w0 == Did(w, "render")
      w1 == IF "cartCount" \notin w.present THEN w0
            ELSE IF ~IsArray(loaded) THEN Raise(w0)
            ELSE SetText(w0, "cartCount", Text(ToStringJS(Num(CartAPI_getCartCount(w)))))
  IN IF w1.error \/ "cartItems" \notin w.present THEN w1
     ELSE IF ~IsArray(loaded) THEN Raise(SetText(w1, "cartItems", Blank))
     ELSE IF Len(cart) = 0
     THEN SetText(SetText(w1, "cartItems", Placeholder("apiRows")),
                  "cartTotal", Text(formatCurrency(0)))
     ELSE LET w2 == SetText(w1, "cartItems",
                            Rows("apiRows", [i \in DOMAIN cart |-> CartAPI_row(cart[i])]))
              w3 == SetText(w2, "cartTotal", Text(formatCurrency(CartAPI_getCartTotal(w))))
          IN w3

CartAPI_saveCart(w, cart, fails) ==
  CartAPI_updateCartUI(CartAPI_writeStorage(w, cart, fails))

CartAPI_clearCart(w, fails) ==
  CartAPI_updateCartUI(CartAPI_writeStorage(w, <<>>, fails))

\* a candidate of addToCart: given is FALSE for a call without an argument
\* that is an object (undefined takes the default {}, null returns at once)
CartAPI_addToCart(w, product, fails) ==
  IF ~product.given \/ product.id.t = "undef" THEN w
  ELSE IF ~IsArray(CartAPI_getCart(w)) THEN Raise(w)
  ELSE
    LET cart == CartAPI_getCart(w).items
        id == ensureInt(product.id, product.id)
        same(it) == ToStringJS(it.id) = ToStringJS(id)
        existing == FindIndex(cart, same)
        q == ensureInt(OrJS(product.quantity, Num(1)), Num(1)).n
        qty == IF q > 1 THEN q ELSE 1
        item == [id |-> product.id,
                 name |-> OrJS(OrJS(product.name, product.shortName),
                               Str(<<"M", "a", "h", "s", "u", "l">>)),
                 shortName |-> OrJS(OrJS(product.shortName, product.name), Str(<<>>)),
                 price |-> ensureInt(OrJS(product.price, Num(0)), Num(0)),
                 image |-> OrJS(product.image, Str(<<>>)),
                 quantity |-> Num(qty)]
        next == IF existing # 0
                THEN [cart EXCEPT ![existing].quantity =
                        Num(ensureInt(@, Num(0)).n + qty)]
                ELSE Append(cart, item)
    IN CartAPI_saveCart(w, next, fails)

CartAPI_removeFromCart(w, id, fails) ==
  LET keep(it) == ToStringJS(it.id) # ToStringJS(id)
  IN IF ~IsArray(CartAPI_getCart(w)) THEN Raise(w)
     ELSE CartAPI_saveCart(w, Filter(CartAPI_getCart(w).items, keep), fails)

\* an item driven to 0 is kept: < 0 instead of <= 0
CartAPI_changeQuantity_keepsZero(w, id, delta, fails) ==
  LET cart == CartAPI_getCart(w).items
      same(it) == ToStringJS(it.id) = ToStringJS(id)
      idx == FindIndex(cart, same)
  IN IF ~IsArray(CartAPI_getCart(w)) THEN Raise(w)
     ELSE IF idx = 0 THEN w
     ELSE LET q == ensureInt(cart[idx].quantity, Num(0)).n + ensureInt(delta, Num(0)).n
              changed == [cart EXCEPT ![idx].quantity = Num(q)]
          IN CartAPI_saveCart(w, IF q < 0 THEN Splice(changed, idx) ELSE changed, fails)

CartAPI_changeQuantity(w, id, delta, fails) ==
  LET cart == CartAPI_getCart(w).items
      same(it) == ToStringJS(it.id) = ToStringJS(id)
      idx == FindIndex(cart, same)
  IN IF ~IsArray(CartAPI_getCart(w)) THEN Raise(w)
     ELSE IF idx = 0 THEN w
     ELSE LET q == ensureInt(cart[idx].quantity, Num(0)).n + ensureInt(delta, Num(0)).n
              changed == [cart EXCEPT ![idx].quantity = Num(q)]
          IN CartAPI_saveCart(w, IF q <= 0 THEN Splice(changed, idx) ELSE changed, fails)


(***************************************************************************)
(* The page script (script.js)                                             *)
(***************************************************************************)
safeParseInt(v, fallback) ==
  LET x == ParseIntJS(v) IN IF x.t = "nan" THEN fallback ELSE x

\* JSON.parse(localStorage.getItem("cart")) || [], and [] when getItem or
\* JSON.parse throws; JSON.parse(null) is null
script_getCart(w) ==
  IF access = "denied" \/ w.storage.k \in {"absent", "empty", "notjson", "null"}
  THEN Stored(<<>>)
  ELSE w.storage

\* the count of a cart value held in memory
script_count(cart) ==
  LET f(it) == safeParseInt(it.quantity, Num(0)).n IN SumOver(cart, f)

script_getCartCount(w) == script_count(script_getCart(w).items)

RECURSIVE SetAll(_, _, _)
SetAll(w, els, v) ==
  IF els = {} THEN w
  ELSE LET el == CHOOSE e \in els : TRUE
       IN SetAll(SetText(w, el, v), els \ {el}, v)

updateAnyBadgeElements(w, count) ==
  Did(SetAll(w, PageBadges, Text(ToStringJS(Num(count)))), "badges")

numberToLocaleString(k) == ToStringJS(Num(k))

script_row(it) ==
  [dataId |-> ToStringJS(it.id),
   name |-> ToStringJS(it.name),
   qty |-> ToStringJS(it.quantity),
   price |-> numberToLocaleString(it.price.n)]

\* cart.reduce raises on a value that is not an array, before anything is set
script_updateCartUI(w) ==
  LET loaded == script_getCart(w)
      cart == loaded.items
      totalCount == script_count(cart)
      w0 == Did(w, "render")
      w1 == IF ~IsArray(loaded) THEN Raise(w0)
            ELSE SetAll(w0, {"idCartCount", "clsCartCount"},
                        Text(ToStringJS(Num(totalCount))))
      f(it) == it.price.n * it.quantity.n
  IN IF w1.error \/ "cartItems" \notin w.present THEN w1
     ELSE IF Len(cart) = 0
     THEN SetText(SetText(w1, "cartItems", Placeholder("pageRows")),
                  "cartTotal", Text(<<"0">>))
     ELSE SetText(SetText(w1, "cartItems",
                          Rows("pageRows", [i \in DOMAIN cart |-> script_row(cart[i])])),
                  "cartTotal", Text(numberToLocaleString(SumOver(cart, f))))

\* document.dispatchEvent(new CustomEvent("cart:updated", {detail: {count}}))
dispatchCartUpdated(w, count) == [Did(w, "notify") EXCEPT !.count = count]

script_saveCart(w, cart, fails) ==
  LET w1 == IF fails THEN Did(w, "writeFailed")
            ELSE Did(SetStorage(w, Stored(JsonCart(cart))), "write")
      count == script_count(cart)
      w2 == script_updateCartUI(w1)
      w3 == updateAnyBadgeElements(w2, count)
      w4 == dispatchCartUpdated(w3, count)
  IN Did(w4, IF fails THEN "stampFailed" ELSE "stamp")

script_addToCart(w, product, fails) ==
  IF ~product.given \/ ~Truthy(product.id) THEN w
  ELSE IF ~IsArray(script_getCart(w)) THEN Raise(w)
  ELSE
    LET cart == script_getCart(w).items
        same(it) == StrictEq(it.id, product.id)
        existing == FindIndex(cart, same)
        item == [id |-> product.id,
                 name |-> OrJS(product.name, Str(<<"M", "a", "h", "s", "u", "l">>)),
                 shortName |-> Undef,
                 price |-> safeParseInt(product.price, Num(0)),
                 image |-> OrJS(product.image, Str(<<>>)),
                 quantity |-> safeParseInt(product.quantity, Num(1))]
        next == IF existing # 0
                THEN [cart EXCEPT ![existing].quantity =
                        Num(safeParseInt(@, Num(0)).n
                            + safeParseInt(product.quantity, Num(1)).n)]
                ELSE Append(cart, item)
    IN script_saveCart(w, next, fails)

\* the delegated click handler of initCartModal, on a .remove-cart-item
\* button whose data-id attribute is dataId
script_removeClick(w, dataId, fails) ==
  LET id == safeParseInt(Str(dataId), Num(0))
      keep(it) == ~StrictEq(it.id, id)
  IN IF ~Truthy(id) THEN w
     ELSE IF ~IsArray(script_getCart(w)) THEN Raise(w)
     ELSE Did(script_saveCart(w, Filter(script_getCart(w).items, keep), fails), "toast")


\* step 4 of initCartUpdateListeners: the badges are set once, at once
initCartUpdateListeners(w) ==
  IF ~IsArray(script_getCart(w)) THEN Raise(w)
  ELSE updateAnyBadgeElements(w, script_getCartCount(w))

updateCartBadge(w) == initCartUpdateListeners(script_updateCartUI(w))

\* the tail of the page script's DOMContentLoaded handler
script_DOMContentLoaded(w) == updateCartBadge(script_updateCartUI(w))

\* the DOMContentLoaded handler of cart.js
CartAPI_DOMContentLoaded(w) == CartAPI_updateCartUI(w)

(***************************************************************************)
(* Inputs of the handlers.                                                 *)
(***************************************************************************)
\* a candidate of addToCart
Product(i, d, q) ==
  [given |-> TRUE, id |-> i, name |-> d.name, shortName |-> Undef,
   price |-> d.price, image |-> d.image, quantity |-> q]
\* addToCart() and addToCart(null)
NoProduct == [given |-> FALSE, id |-> Undef, name |-> Undef, shortName |-> Undef,
              price |-> Undef, image |-> Undef, quantity |-> Undef]

\* ids: absent, 0, a number, the same number as text, and a text whose
\* parseInt differs from it (as "12abc" does)
IdInputs == {Undef, Num(0), Num(1), Str(<<"1">>), Str(<<"0", "1">>)}
QtyInputs == {Undef, Num(0), Num(2), Str(<<"a", "b", "c">>)}
\* name, price and image of a candidate
NoDetails == [name |-> Undef, price |-> Undef, image |-> Undef]
DetailsX == [name |-> Str(<<"X">>), price |-> Num(100),
             image |-> Str(<<"x", ".", "p", "n", "g">>)]
Details ==
  {NoDetails, DetailsX,
   [name |-> Undef, price |-> Num(-5), image |-> Undef],
   [name |-> Undef, price |-> Str(<<"a", "b", "c">>), image |-> Undef]}
\* candidates of every id shape
Products ==
  {NoProduct} \cup {Product(i, DetailsX, q) : i \in IdInputs, q \in {Undef, Num(2)}}
FewIds == {Undef, Num(1), Str(<<"0", "1">>)}
\* candidates of every quantity, price and name under one id, and a candidate
\* of another id
ValueProducts ==
  {NoProduct, Product(Str(<<"0", "1">>), DetailsX, Undef)}
  \cup {Product(i, d, q) : i \in {Undef, Num(1)}, d \in Details, q \in QtyInputs}
Deltas == {Num(-2), Num(-1), Num(1), Str(<<"a", "b", "c">>)}
\* whether localStorage.setItem throws during the handler
WriteFailures == {access # "ok"}
\* a page that holds the cart modal: the list and the total
ModalLayout == {"cartItems", "cartTotal"}

\* few candidates
SmallProducts ==
  {NoProduct} \cup {Product(i, DetailsX, q) : i \in FewIds, q \in {Undef, Num(0), Num(2)}}
\* ids to remove and to change by: a number, its text, and a text of another item
SmallIds == {Num(1), Str(<<"1">>), Str(<<"0", "1">>)}
BadgeIds == {Undef, Num(1), Str(<<"1">>)}
BadgeProducts ==
  {NoProduct} \cup {Product(i, DetailsX, q) : i \in BadgeIds, q \in {Undef, Num(2)}}

(***************************************************************************)
(* The state machine.                                                      *)
(***************************************************************************)
Items == IF storage.k = "absent" THEN <<>> ELSE storage.items

InBounds(w) ==
  /\ Len(w.storage.items) <= MaxItems
  /\ \A i \in DOMAIN w.storage.items :
       w.storage.items[i].quantity.n \in 0..MaxQty

\* what the handler op, run to completion, leaves of the cart and the page
Leaves(op, w, result) == \E left \in {w} :
  /\ InBounds(left)
  /\ storage' = left.storage
  /\ text' = left.text
  /\ last' = [op |-> op, effects |-> left.effects, count |-> left.count,
              result |-> result]

\* the handler op has run to completion and left w
Ran(op, w, result) ==
  /\ Leaves(op, w, result)
  /\ UNCHANGED <<access, present, watch, catalog, tabs, serial, twin>>

\* the page as a fresh browser loads it: nothing stored, the markup as
\* served, then the DOMContentLoaded handlers of both scripts
Loaded(layout) ==
  /\ storage = Absent
  /\ access = "ok"
  /\ present = layout
  /\ text = LET raw == [storage |-> Absent, present |-> layout,
                        text |-> [el \in Surfaces |-> InitialMarkup],
                        effects |-> <<>>, count |-> 0, error |-> FALSE]
            IN script_DOMContentLoaded(CartAPI_DOMContentLoaded(raw)).text
  /\ last = [op |-> "init", effects |-> <<>>, count |-> 0, result |-> 0]
  /\ watch = Observed(Listening(NoWatch), layout)
  /\ catalog = NoCatalog
  /\ tabs = [t \in Tabs |-> Idle]
  /\ serial = Absent
  /\ twin = Absent

ApiAdd(p) == \E fails \in WriteFailures :
  Ran("CartAPI.addToCart", CartAPI_addToCart(World, p, fails), 0)

ApiRemove(id) == \E fails \in WriteFailures :
  Ran("CartAPI.removeFromCart", CartAPI_removeFromCart(World, id, fails), 0)

ApiChange(id, delta) == \E fails \in WriteFailures :
  Ran("CartAPI.changeQuantity", CartAPI_changeQuantity(World, id, delta, fails), 0)

ApiClear == \E fails \in WriteFailures :
  Ran("CartAPI.clearCart", CartAPI_clearCart(World, fails), 0)

\* container.onclick of cart.js: a click on the +, - or remove button of a
\* row that cart.js rendered (the render pass that writes the rows sets it)
ApiClick(i, button) ==
  /\ "cartItems" \in present
  /\ text["cartItems"].k = "apiRows"
  /\ i \in DOMAIN text["cartItems"].rows
  /\ LET id == Str(text["cartItems"].rows[i].dataId)
     IN \E fails \in WriteFailures :
        CASE button = "increase" ->
               Ran("CartAPI.changeQuantity", CartAPI_changeQuantity(World, id, Num(1), fails), 0)
          [] button = "decrease" ->
               Ran("CartAPI.changeQuantity", CartAPI_changeQuantity(World, id, Num(-1), fails), 0)
          [] button = "remove" ->
               Ran("CartAPI.removeFromCart", CartAPI_removeFromCart(World, id, fails), 0)

PageAdd(p) == \E fails \in WriteFailures :
  Ran("addToCart", script_addToCart(World, p, fails), 0)

\* a click on the remove button of a row that the page script rendered
PageRemoveClick(i) ==
  /\ "cartItems" \in present
  /\ text["cartItems"].k = "pageRows"
  /\ i \in DOMAIN text["cartItems"].rows
  /\ \E fails \in WriteFailures :
       Ran("click.remove-cart-item",
           script_removeClick(World, text["cartItems"].rows[i].dataId, fails), 0)

\* a query; its reduce raises on a value that is not an array
Asked(w, loaded) == IF IsArray(loaded) THEN w ELSE Raise(w)

ApiGetCartCount ==
  Ran("CartAPI.getCartCount", Asked(World, CartAPI_getCart(World)),
      CartAPI_getCartCount(World))
ApiGetCartTotal ==
  Ran("CartAPI.getCartTotal", Asked(World, CartAPI_getCart(World)),
      CartAPI_getCartTotal(World))
PageGetCartCount ==
  Ran("getCartCount", Asked(World, script_getCart(World)), script_getCartCount(World))

Buttons == {"increase", "decrease", "remove"}

NextOver(products, ids) ==
  \/ \E p \in products : ApiAdd(p)
  \/ \E id \in ids : ApiRemove(id)
  \/ \E id \in ids, delta \in Deltas : ApiChange(id, delta)
  \/ ApiClear
  \/ \E i \in 1..(MaxItems + 1), b \in Buttons : ApiClick(i, b)
  \/ \E p \in products : PageAdd(p)
  \/ \E i \in 1..(MaxItems + 1) : PageRemoveClick(i)
  \/ ApiGetCartCount
  \/ ApiGetCartTotal
  \/ PageGetCartCount

\* the cart logic on a page with the cart modal, over ids of every shape
Init == Loaded(ModalLayout)
Next == NextOver(Products, IdInputs)
Spec == Init /\ [][Next]_vars

\* the same page, over quantities, prices and names of every shape
NextValues == NextOver(ValueProducts, FewIds)
SpecValues == Init /\ [][NextValues]_vars

\* the same page, over few inputs
NextSmall == NextOver(SmallProducts, SmallIds)
SpecSmall == Init /\ [][NextSmall]_vars

\* a page that holds every binding target of both scripts
InitBadges == Loaded(Surfaces)
NextBadges == NextOver(BadgeProducts, BadgeIds)
SpecBadges == InitBadges /\ [][NextBadges]_vars

(***************************************************************************)
(* The storage key as any code of the origin can leave it, and localStorage *)
(* as the browser can withhold it.                                         *)
(***************************************************************************)
\* a line item as the spec lays it out: id, name, price, image, quantity
LineItem(i, q) ==
  [id |-> i, name |-> DetailsX.name, shortName |-> Undef, price |-> DetailsX.price,
   image |-> DetailsX.image, quantity |-> Num(q)]
ItemPool == {LineItem(Num(1), 1), LineItem(Str(<<"0", "1">>), 2)}
\* the carts of 0..MaxItems line items of the pool
Carts == UNION {[1..n -> ItemPool] : n \in 0..MaxItems}

\* CartAPI.saveCart(cart) and saveCart(cart) of the page script
ApiSave(cart) == \E fails \in WriteFailures :
  Ran("CartAPI.saveCart", CartAPI_saveCart(World, cart, fails), 0)
PageSave(cart) == \E fails \in WriteFailures :
  Ran("saveCart", script_saveCart(World, cart, fails), 0)

Outside(op) == [op |-> op, effects |-> <<>>, count |-> 0, result |-> 0]

\* other code of the origin, or the user, leaves the key with text that is
\* not a cart, or removes it
Corrupt(kind) ==
  /\ storage' = Held(kind)
  /\ last' = Outside("foreign.setItem")
  /\ UNCHANGED <<access, present, text, watch, catalog, tabs, serial, twin>>

\* the quota fills up or frees, the user disables or enables storage
SetAccess(a) ==
  /\ a # access
  /\ access' = a
  /\ last' = Outside("access")
  /\ UNCHANGED <<storage, present, text, watch, catalog, tabs, serial, twin>>

StoreProducts == {NoProduct, Product(Num(1), DetailsX, Undef)}
StoreIds == {Num(1)}

\* the cart logic over every content of the key and every access mode
NextStore ==
  \/ NextOver(StoreProducts, StoreIds)
  \/ \E kind \in Malformed \cup {"absent"} : Corrupt(kind)
  \/ \E a \in AccessModes : SetAccess(a)
SpecStore == Init /\ [][NextStore]_vars

\* saving and loading carts, with a quota that fills up and frees
NextRoundTrip ==
  \/ \E cart \in Carts : ApiSave(cart)
  \/ \E cart \in Carts : PageSave(cart)
  \/ ApiGetCartCount
  \/ ApiGetCartTotal
  \/ PageGetCartCount
  \/ \E a \in {"ok", "full"} : SetAccess(a)
SpecRoundTrip == Init /\ [][NextRoundTrip]_vars

(***************************************************************************)
(* Render passes on pages that hold any of the binding targets.            *)
(***************************************************************************)
\* CartAPI.updateCartUI() and updateCartUI() of the page script
ApiRender == Ran("CartAPI.updateCartUI", CartAPI_updateCartUI(World), 0)
PageRender == Ran("updateCartUI", script_updateCartUI(World), 0)

\* the badge of either script, the list and the total
RenderTargets == {"cartCount", "idCartCount", "cartItems", "cartTotal"}
LayoutProducts == {Product(Num(1), DetailsX, Undef)}

InitLayouts == \E layout \in SUBSET RenderTargets : Loaded(layout)
NextLayouts ==
  \/ \E p \in LayoutProducts : ApiAdd(p)
  \/ \E p \in LayoutProducts : PageAdd(p)
  \/ ApiClear
  \/ ApiRender
  \/ PageRender
SpecLayouts == InitLayouts /\ [][NextLayouts]_vars

(***************************************************************************)
(* Two pages of the origin on the same key.  A handler runs to completion  *)
(* within its page; localStorage has no lock across pages, so a handler of *)
(* the other page can run between a mutator's getCart() and its saveCart().*)
(***************************************************************************)
TabCalls == {"CartAPI.addToCart", "addToCart", "CartAPI.removeFromCart"}
TabIds == {Num(1)}

\* the mutator f called with id, run on the page as w
Called(f, id, w, fails) ==
  CASE f = "CartAPI.addToCart" -> CartAPI_addToCart(w, Product(id, DetailsX, Undef), fails)
    [] f = "addToCart" -> script_addToCart(w, Product(id, DetailsX, Undef), fails)
    [] f = "CartAPI.removeFromCart" -> CartAPI_removeFromCart(w, id, fails)

\* the event loop of page t dispatches the handler, which reads the cart
TabRead(t, f, id) ==
  /\ ~tabs[t].busy
  /\ \E inOrder \in {Called(f, id, [World EXCEPT !.storage = serial], FALSE)} :
        /\ InBounds(inOrder)
        /\ serial' = inOrder.storage
  /\ tabs' = [tabs EXCEPT ![t] = [busy |-> TRUE, seen |-> storage, f |-> f, id |-> id]]
  /\ UNCHANGED <<storage, access, present, text, last, watch, catalog, twin>>

\* the handler goes on with the cart it read: it saves and renders (the
\* document of the other page is not the one text describes)
TabWrite(t) ==
  /\ tabs[t].busy
  /\ \E fails \in WriteFailures :
       \E w \in {Called(tabs[t].f, tabs[t].id,
                         [World EXCEPT !.storage = tabs[t].seen], fails)} :
          /\ InBounds(w)
          /\ storage' = w.storage
          /\ text' = IF t = "this" THEN w.text ELSE text
          /\ last' = [op |-> tabs[t].f, effects |-> w.effects, count |-> w.count,
                      result |-> 0]
  /\ tabs' = [tabs EXCEPT ![t] = Idle]
  /\ UNCHANGED <<access, present, watch, catalog, serial, twin>>

NextTabs ==
  \/ \E t \in Tabs, f \in TabCalls, id \in TabIds : TabRead(t, f, id)
  \/ \E t \in Tabs : TabWrite(t)
SpecTabs == Init /\ [][NextTabs]_vars

(***************************************************************************)
(* The page lifetime: badges injected after the load, the window load      *)
(* event, the cart modal.                                                  *)
(***************************************************************************)
\* other page logic inserts the badge el into the document; the observers
\* that are still connected then run their callback, and one that finds a
\* selector of its list sets the badges and disconnects
Insert(el) ==
  /\ el \notin present
  /\ present' = present \cup {el}
  /\ LET w == [World EXCEPT !.present = present']
         found == Observed(watch, present') # watch
         w1 == IF ~found THEN w
               ELSE IF ~IsArray(script_getCart(w)) THEN Raise(w)
               ELSE updateAnyBadgeElements(w, script_getCartCount(w))
     IN /\ text' = w1.text
        /\ last' = [op |-> "insert", effects |-> w1.effects, count |-> 0, result |-> 0]
  /\ watch' = Observed(watch, present')
  /\ UNCHANGED <<storage, access, catalog, tabs, serial, twin>>

\* the window load event after the page script has initialised: the load
\* listeners of the earlier initCartUpdateListeners calls set the badges,
\* then the listener of the DOMContentLoaded handler runs updateCartUI()
\* and updateCartBadge()
WindowLoad ==
  /\ ~watch.loaded
  /\ watch.listeners < MaxListeners
  /\ Leaves("window.load",
            updateCartBadge(script_updateCartUI(initCartUpdateListeners(World))), 0)
  /\ watch' = [Observed(Listening(watch), present) EXCEPT !.loaded = TRUE]
  /\ UNCHANGED <<access, present, catalog, tabs, serial, twin>>

\* a click on #cartBtn of a page that holds the cart modal: updateCartUI()
\* and initCartUpdateListeners()
OpenCartModal ==
  /\ "cartItems" \in present
  /\ watch.listeners < MaxListeners
  /\ Leaves("click.cartBtn", updateCartBadge(World), 0)
  /\ watch' = Observed(Listening(watch), present)
  /\ UNCHANGED <<access, present, catalog, tabs, serial, twin>>

\* badges that other page logic injects: one the observer looks for, two
\* that only updateAnyBadgeElements knows
LateBadges == {"navBadge", "btnSpan", "headerBadge"}
WatchProducts == {Product(Num(1), DetailsX, Undef)}

\* a page with the cart modal, served with or without the #cart-count badge
InitWatch == \E layout \in {ModalLayout, ModalLayout \cup {"idCartCount"}} : Loaded(layout)
NextWatch ==
  \/ \E el \in LateBadges : Insert(el)
  \/ WindowLoad
  \/ OpenCartModal
  \/ \E p \in WatchProducts : PageAdd(p)
  \/ \E p \in WatchProducts : ApiAdd(p)
  \/ \E i \in 1..(MaxItems + 1) : PageRemoveClick(i)
SpecWatch == InitWatch /\ [][NextWatch]_vars

(***************************************************************************)
(* loadProducts: the product catalog and its cache.                        *)
(***************************************************************************)
\* what a fetch of products.json settles to: the catalog, or [] when the
\* fetch or the parse fails or the JSON is a falsy value
Settled == {"data", "empty"}

\* caller c calls loadProducts(): with productsCache set it gets the cache,
\* otherwise the call issues a fetch and suspends at the await
LoadProducts(c) ==
  /\ catalog.calls[c] # "awaiting"
  /\ catalog' = IF catalog.cache # "null"
                THEN [catalog EXCEPT !.calls[c] = catalog.cache]
                ELSE [catalog EXCEPT !.calls[c] = "awaiting", !.fetches = @ + 1]
  /\ UNCHANGED <<storage, access, present, text, last, watch, tabs, serial, twin>>

\* the fetch of caller c settles: the call sets productsCache and returns it
FetchSettles(c, got) ==
  /\ catalog.calls[c] = "awaiting"
  /\ catalog' = [catalog EXCEPT !.cache = got, !.calls[c] = got]
  /\ UNCHANGED <<storage, access, present, text, last, watch, tabs, serial, twin>>

NextCatalog ==
  \/ \E c \in Callers : LoadProducts(c)
  \/ \E c \in Callers, got \in Settled : FetchSettles(c, got)
SpecCatalog == Init /\ [][NextCatalog]_vars

(***************************************************************************)
(* The two addToCart side by side: the same calls go to CartAPI.addToCart  *)
(* on the stored cart and to the page script's addToCart on a cart that    *)
(* started the same.                                                       *)
(***************************************************************************)
\* candidates of ids 0, a number and a text, with and without quantity and
\* with a positive and a negative price
TwinProducts ==
  {NoProduct}
  \cup {Product(i, d, q) : i \in {Num(0), Num(1), Str(<<"0", "1">>)},
                           d \in {DetailsX, [name |-> Undef, price |-> Num(-5),
                                             image |-> Undef]},
                           q \in {Undef, Num(0), Num(2)}}

\* the page script's view: the key holds the cart its own addToCart left
TwinWorld == [World EXCEPT !.storage = twin]

\* both carts start as the same stored cart
TwinStart(cart) ==
  /\ last.op = "init"
  /\ storage' = Stored(cart)
  /\ twin' = Stored(cart)
  /\ last' = [op |-> "start", effects |-> <<>>, count |-> 0, result |-> 0]
  /\ UNCHANGED <<access, present, text, watch, catalog, tabs, serial>>

\* addToCart(p) of each script, each on its own cart
AddBoth(p) == \E fails \in WriteFailures :
  \E page \in {script_addToCart(TwinWorld, p, fails)} :
    /\ InBounds(page)
    /\ twin' = page.storage
    /\ Leaves("addToCart.both", CartAPI_addToCart(World, p, fails), 0)
    /\ UNCHANGED <<access, present, watch, catalog, tabs, serial>>

NextTwin ==
  \/ \E cart \in Carts : TwinStart(cart)
  \/ \E p \in TwinProducts : AddBoth(p)
SpecTwin == Init /\ [][NextTwin]_vars

(***************************************************************************)
(* What the claims speak of.                                               *)
(***************************************************************************)
\* the sum of the stored quantities, and of price x quantity
SumQuantity(items) == Sum([i \in DOMAIN items |-> items[i].quantity.n])
SumPriceQuantity(items) ==
  Sum([i \in DOMAIN items |-> items[i].price.n * items[i].quantity.n])

MutatorOps == {"CartAPI.addToCart", "CartAPI.removeFromCart", "CartAPI.changeQuantity",
               "CartAPI.clearCart", "addToCart", "click.remove-cart-item"}
QueryOps == {"CartAPI.getCartCount", "CartAPI.getCartTotal", "getCartCount"}
\* the last handler was a mutator and got as far as its storage write
Mutated == last.op \in MutatorOps /\ last.effects # <<>>

\* the same id value, whether it arrives as a number or as text
SameIdValue(a, b) == ToStringJS(a) = ToStringJS(b)

\* C1: once a mutation has returned, every badge that exists on the page
\* displays the sum of the quantities of the persisted cart.
C1_BadgesShowCount ==
  Mutated => \A b \in Badges \cap present :
               text[b] = Text(ToStringJS(Num(SumQuantity(Items))))

\* C2: the persisted cart never holds two line items with the same id.
C2_OneLinePerId ==
  \A i, j \in DOMAIN Items : i # j => Items[i].id # Items[j].id

\* C4: every stored line item has a quantity that is an integer >= 1.
C4_QuantityPositive ==
  \A i \in DOMAIN Items : Items[i].quantity.t = "num" /\ Items[i].quantity.n >= 1

\* the lines of items whose id is the value id
LinesOf(items, id) == {i \in DOMAIN items : items[i].id = id}

\* the quantity an add counts for: 1 when it is unspecified, not a number,
\* zero or negative
CountedQuantity(q) == IF q.t = "num" /\ q.n >= 1 THEN q.n ELSE 1

\* what an add of candidate p must leave: one line for its id, holding the
\* sum of the quantities and the name, price and image of the first add
MergedAdd(p) ==
  LET before == LinesOf(Items, p.id)
      after == LinesOf(Items', p.id)
  IN /\ Cardinality(after) = 1
     /\ LET j == CHOOSE j \in after : TRUE
        IN IF before = {}
           THEN Items'[j].quantity = Num(CountedQuantity(p.quantity))
           ELSE LET i == CHOOSE i \in before : TRUE
                IN /\ Items'[j].quantity =
                        Num(Items[i].quantity.n + CountedQuantity(p.quantity))
                   /\ Items'[j].name = Items[i].name
                   /\ Items'[j].price = Items[i].price
                   /\ Items'[j].image = Items[i].image

\* C3: every add of a candidate with an id, to a cart that is empty or holds
\* only that id, leaves exactly one line item for that id, whose quantity is the sum of the added quantities (each counted
\* as 1 when unspecified, non-numeric, zero or negative) and whose name,
\* price and image are those of the first add.
C3_MergeByAdd ==
  [][\A p \in ValueProducts :
       ((ApiAdd(p) \/ PageAdd(p)) /\ p.given /\ p.id # Undef
          /\ \A i \in DOMAIN Items : Items[i].id = p.id)
       => MergedAdd(p)]_vars

\* the same id value in the other type: a number and its decimal text
OtherType(a, b) == a.t # b.t /\ SameIdValue(a, b)

\* the row of the list that shows line i of the persisted cart
RowShows(i) ==
  /\ i \in DOMAIN text["cartItems"].rows
  /\ i \in DOMAIN Items
  /\ text["cartItems"].rows[i].dataId = ToStringJS(Items[i].id)

\* C5: ids compare type-stably in every operation: when the cart holds an
\* item whose id is the same value in the other type, an add merges into it
\* instead of appending, removeFromCart and the remove click leave no such
\* item, and changeQuantity changes the cart.
C5_TypeStableIds ==
  [][/\ \A p \in Products :
          ((ApiAdd(p) \/ PageAdd(p)) /\ p.given
             /\ \E i \in DOMAIN Items : OtherType(Items[i].id, p.id))
          => Len(Items') = Len(Items)
     /\ \A id \in IdInputs :
          ApiRemove(id) => ~\E i \in DOMAIN Items' : OtherType(Items'[i].id, id)
     /\ \A id \in IdInputs, d \in {Num(-1), Num(1)} :
          (ApiChange(id, d) /\ \E i \in DOMAIN Items : OtherType(Items[i].id, id))
          => Items' # Items
     /\ \A i \in DOMAIN Items :
          (PageRemoveClick(i) /\ RowShows(i))
          => ~\E j \in DOMAIN Items' : SameIdValue(Items'[j].id, Items[i].id)
    ]_vars

\* items without the lines in drop, in the same order
Without(items, drop) ==
  LET keep(i) == i \notin drop
      idx == SelectSeq([i \in DOMAIN items |-> i], keep)
  IN [k \in DOMAIN idx |-> items[idx[k]]]

\* C7: removeFromCart(id) and the remove click leave no line item of that id
\* and every other line item unchanged and in the same order; when no item
\* has the id the persisted cart value is unchanged.
C7_RemoveLeavesOthers ==
  [][/\ \A id \in IdInputs :
          ApiRemove(id) =>
            LET hit == {i \in DOMAIN Items : SameIdValue(Items[i].id, id)}
            IN Items' = Without(Items, hit)
     /\ \A i \in DOMAIN Items :
          (PageRemoveClick(i) /\ RowShows(i)) =>
            LET hit == {j \in DOMAIN Items : SameIdValue(Items[j].id, Items[i].id)}
            IN Items' = Without(Items, hit)
    ]_vars

\* C8: addToCart with a candidate that has no defined id, or with no
\* candidate, changes nothing: no storage write, no render pass and no
\* notification; a candidate with a defined id, 0 included, is taken.
C8_AddNeedsOnlyDefinedId ==
  [][\A p \in Products :
       (ApiAdd(p) \/ PageAdd(p)) =>
         IF ~p.given \/ p.id = Undef
         THEN UNCHANGED <<storage, text>> /\ last'.effects = <<>>
         ELSE last'.effects # <<>> /\ LinesOf(Items', p.id) # {}]_vars

\* C9: every stored price is a non-negative integer, and the price of a line
\* item that stays in the cart never changes.
C9_PriceNonNegativeFixed ==
  [][/\ \A j \in DOMAIN Items' :
          Items'[j].price.t = "num" /\ Items'[j].price.n >= 0
     /\ \A j \in DOMAIN Items' :
          LinesOf(Items, Items'[j].id) # {} =>
            \E i \in LinesOf(Items, Items'[j].id) : Items[i].price = Items'[j].price
    ]_vars

\* what changeQuantity(id, d) must leave
ChangedBy(id, d) ==
  LET hit == {i \in DOMAIN Items : SameIdValue(Items[i].id, id)}
  IN IF hit = {} THEN storage' = storage
     ELSE LET k == CHOOSE k \in hit : \A i \in hit : k <= i
              q == Items[k].quantity.n + d
          IN IF q > 0
             THEN /\ Len(Items') = Len(Items)
                  /\ Items'[k] = [Items[k] EXCEPT !.quantity = Num(q)]
                  /\ \A i \in DOMAIN Items \ {k} : Items'[i] = Items[i]
             ELSE Items' = Without(Items, {k})

\* C6: changeQuantity(id, delta) leaves the item of that id with quantity
\* q + delta when that is > 0 and removes it when it is <= 0, every other line
\* item and the order unchanged; with no item of that id the persisted cart
\* is unchanged.
C6_ChangeQuantity ==
  [][\A id \in SmallIds, d \in {-2, -1, 1} :
       last'.op = "CartAPI.changeQuantity" /\ ApiChange(id, Num(d)) => ChangedBy(id, d)]_vars

\* changeQuantity has driven the only line item to <= 0 and removed it
C6_Witness ==
  /\ last.op = "CartAPI.changeQuantity"
  /\ last.effects = <<"write", "render">>
  /\ storage = Stored(<<>>)

\* the queries on the cart that storage holds
CountOf(st) == CartAPI_getCartCount([World EXCEPT !.storage = st])
TotalOf(st) == CartAPI_getCartTotal([World EXCEPT !.storage = st])
PageCountOf(st) == script_getCartCount([World EXCEPT !.storage = st])

\* C10: in every state getCartCount() is the sum of the stored quantities and
\* getCartTotal() the sum of price x quantity, so a query after a mutation
\* returns the values of the mutated cart; a query writes nothing to
\* storage, renders nothing and notifies nobody.
C10_QueriesFreshAndPure ==
  [][/\ CountOf(storage') = SumQuantity(Items')
     /\ PageCountOf(storage') = SumQuantity(Items')
     /\ TotalOf(storage') = SumPriceQuantity(Items')
     /\ last'.op \in QueryOps =>
          /\ UNCHANGED <<storage, text>>
          /\ last'.effects = <<>>
          /\ last'.result = CASE last'.op = "CartAPI.getCartTotal" -> SumPriceQuantity(Items)
                              [] OTHER -> SumQuantity(Items)
    ]_vars

\* getCartTotal has been asked on a cart of two line items
C10_Witness ==
  /\ last.op = "CartAPI.getCartTotal"
  /\ Len(Items) = 2
  /\ last.result = 300

\* the page once the step has written storage
After == [World EXCEPT !.storage = storage']

Raised(effects) == \E i \in DOMAIN effects : effects[i] = "raise"

\* C12: whatever the storage key holds (nothing, the empty text, text that is
\* not JSON, JSON of an object, of a number or of null) and whether or not
\* the read fails, getCart returns a sequence, the empty one unless the key
\* holds a cart, and neither getCart nor a mutator or query that runs on the
\* loaded value raises an error.
C12_LoadIsAlwaysSequence ==
  /\ IsArray(CartAPI_getCart(World))
  /\ IsArray(script_getCart(World))
  /\ storage.k # "array" =>
        CartAPI_getCart(World) = Stored(<<>>) /\ script_getCart(World) = Stored(<<>>)
  /\ ~Raised(last.effects)

\* what the add of p leaves when its storage write succeeds
Succeeded(op, p) ==
  IF op = "CartAPI.addToCart" THEN CartAPI_addToCart(World, p, FALSE)
  ELSE script_addToCart(World, p, FALSE)

\* C13: an add whose storage write fails returns without raising, and the
\* cart it computed is the cart of the page from then on: its render pass
\* shows that cart, and getCartCount and getCartTotal return its count and
\* total.
C13_FailedWriteKeepsMutation ==
  [][\A p \in StoreProducts :
       (last'.op \in {"CartAPI.addToCart", "addToCart"}
          /\ (ApiAdd(p) \/ PageAdd(p))
          /\ last'.effects # <<>> /\ last'.effects[1] = "writeFailed")
       => LET want == Succeeded(last'.op, p)
          IN /\ ~Raised(last'.effects)
             /\ text' = want.text
             /\ CountOf(storage') = SumQuantity(want.storage.items)
             /\ PageCountOf(storage') = SumQuantity(want.storage.items)
             /\ TotalOf(storage') = SumPriceQuantity(want.storage.items)]_vars

\* the positions of an effect in the order of what a handler did
At(effects, what) == {i \in DOMAIN effects : effects[i] = what}

\* C14: a mutation (add, remove, change-quantity, clear) of either script
\* that has written the cart emits the change notification exactly once,
\* after its storage write and after its render pass, and the notification
\* carries the count of the resulting cart.
C14_NotifiesOnceAfterWriteAndRender ==
  (last.op \in MutatorOps /\ At(last.effects, "write") # {}) =>
    LET notified == At(last.effects, "notify")
    IN /\ Cardinality(notified) = 1
       /\ At(last.effects, "render") # {}
       /\ \A n \in notified :
            \A i \in At(last.effects, "write") \cup At(last.effects, "render") : i < n
       /\ last.count = SumQuantity(Items)

\* what a binding target shows of the persisted cart, by the markup of
\* either script
ApiShown(el) ==
  CASE el = "cartCount" -> Text(ToStringJS(Num(SumQuantity(Items))))
    [] el = "cartItems" ->
         IF Items = <<>> THEN Placeholder("apiRows")
         ELSE Rows("apiRows", [i \in DOMAIN Items |-> CartAPI_row(Items[i])])
    [] el = "cartTotal" -> Text(formatCurrency(SumPriceQuantity(Items)))
PageShown(el) ==
  CASE el = "idCartCount" -> Text(ToStringJS(Num(SumQuantity(Items))))
    [] el = "cartItems" ->
         IF Items = <<>> THEN Placeholder("pageRows")
         ELSE Rows("pageRows", [i \in DOMAIN Items |-> script_row(Items[i])])
    [] el = "cartTotal" -> Text(numberToLocaleString(SumPriceQuantity(Items)))

RenderOps == {"CartAPI.updateCartUI", "updateCartUI"}

\* C15: after a render pass every binding target that exists on the page
\* (the badge, the list, the total) shows the value of the persisted cart,
\* whichever of the other targets exist, and no error is raised.
C15_EachPresentTargetRendered ==
  /\ last.op = "CartAPI.updateCartUI" =>
        /\ ~Raised(last.effects)
        /\ \A el \in present \cap {"cartCount", "cartItems", "cartTotal"} :
             text[el] = ApiShown(el)
  /\ last.op = "updateCartUI" =>
        /\ ~Raised(last.effects)
        /\ \A el \in present \cap {"idCartCount", "cartItems", "cartTotal"} :
             text[el] = PageShown(el)

\* C16: a render pass that follows a render pass of the same script on the
\* same persisted cart leaves every binding target as it was; after a
\* render pass on the empty cart the list shows the empty placeholder and
\* the total a zero value.
C16_RenderIdempotent ==
  [][last'.op \in RenderOps =>
       /\ last.op = last'.op => text' = text
       /\ Items' = <<>> =>
            /\ "cartItems" \in present =>
                  text'["cartItems"] \in {Placeholder("apiRows"), Placeholder("pageRows")}
            /\ "cartTotal" \in present =>
                  text'["cartTotal"] \in {Text(formatCurrency(0)), Text(<<"0">>)}
    ]_vars

\* C17: however the mutators that the pages on the key dispatch interleave,
\* each reads the latest persisted cart, and once all have returned the
\* persisted cart is the one that applying them one after another in
\* dispatch order gives.
C17_MutatorsSerialize ==
  /\ \A t \in Tabs : tabs[t].busy => tabs[t].seen = storage
  /\ (\A t \in Tabs : ~tabs[t].busy) => storage = serial

\* C18: a badge under any selector of updateAnyBadgeElements that is inserted
\* into the page after initCartUpdateListeners has run shows the count of
\* the cart once the insertion has been handled, with no cart mutation.
C18_LateBadgeCorrected ==
  [][\A el \in LateBadges :
       (last'.op = "insert" /\ Insert(el))
       => text'[el] = Text(ToStringJS(Num(SumQuantity(Items))))]_vars

\* C19: during a page lifetime at most one observer is connected and at most
\* one change-notification listener is registered, and once an observer has
\* found its target no observer is connected again.
C19_WatchOneWay ==
  /\ watch.watchers <= 1
  /\ watch.listeners <= 1
  /\ watch.satisfied => watch.watchers = 0

\* C20: during a page lifetime at most one fetch of the catalog is issued,
\* however many calls of loadProducts are made and whenever they start, and
\* every call that has returned has got the same catalog.
C20_CatalogFetchedOnce ==
  /\ catalog.fetches <= 1
  /\ \A c, d \in Callers :
       (catalog.calls[c] \in Settled /\ catalog.calls[d] \in Settled)
       => catalog.calls[c] = catalog.calls[d]

\* C21: CartAPI.addToCart and the page script's addToCart, given the same
\* calls from the same starting cart, leave carts with the same ids in the
\* same order, the same quantities and prices, and so the same count and
\* total.
C21_AddToCartEquivalent ==
  LET api == CartAPI_getCart(World).items
      page == script_getCart(TwinWorld).items
  IN /\ Len(api) = Len(page)
     /\ \A i \in DOMAIN api :
          i \in DOMAIN page =>
            /\ api[i].id = page[i].id
            /\ api[i].quantity = page[i].quantity
            /\ api[i].price = page[i].price
     /\ CartAPI_getCartCount(World) = script_getCartCount(TwinWorld)
     /\ CartAPI_getCartTotal(World) = CartAPI_getCartTotal(TwinWorld)

=============================================================================
